---- MODULE Spec2Model ----
(***************************************************************************)
(* silverbullet-rag: the incremental watcher (server/watcher.py), the      *)
(* graph store it writes to (server/db/graph.py), the config tracker       *)
(* (server/config_parser.py), the path handlers of the RPC surfaces        *)
(* (server/grpc_server.py, server/mcp/tools) and the process supervisor    *)
(* (server/__main__.py).                                                   *)
(*                                                                         *)
(* Specifications:                                                         *)
(*   Spec      the watcher running in the unified server: filesystem       *)
(*             changes produce events, the observer hands them to handler  *)
(*             threads, handlers run step by step and interleave.          *)
(*   FairSpec  Spec with weak fairness on every handler thread.            *)
(*   StoreSpec the graph store under upserts and deletes alone.            *)
(*   PathSpec  the path-taking request handlers.                           *)
(*   SupSpec   the supervisor's start-up and shutdown sequence.            *)
(***************************************************************************)
EXTENDS Integers, Sequences, FiniteSets, TLC

(***************************************************************************)
(* Bounds of the model.                                                    *)
(***************************************************************************)
MaxFsOps == 2
MaxTicks == 1
MaxFaults == 1

(* time.time() at start-up and the step of the model's clock, in seconds *)
Epoch == 10
TickStep == 5

(* watcher.py:90  "if now - last_time < 5.0" *)
DebounceWindow == 5

None == "None"

Threads == {"t1", "t2"}

(***************************************************************************)
(* Files and their contents.  A content version is a name; Doc gives what  *)
(* the markdown of that version contains: its "##" sections (header ""     *)
(* stands for text before the first heading), its tagged data blocks and   *)
(* its space-lua blocks.                                                   *)
(***************************************************************************)
PagePath == "a.md"
OtherPage == "b.md"
ConfigPath == "CONFIG.md"
TextPath == "notes.txt"
DirPath == "Projects"

MdPaths == {PagePath, ConfigPath}

(* Path.parts of the directory of a path relative to the space root *)
DirsOf(p) ==
    CASE p = "Projects/Sub/n.md" -> << "Projects", "Sub" >>
      [] p = ".obsidian/h.md" -> << ".obsidian" >>
      [] p = "_Proposals/p.md" -> << "_Proposals" >>
      [] OTHER -> << >>

Section(h, t, tags, attrs, links) ==
    [header |-> h, text |-> t, tags |-> tags, attrs |-> attrs, links |-> links]

LuaOk(k, v) == [ok |-> TRUE, key |-> k, value |-> v]
LuaBad == [ok |-> FALSE, key |-> "", value |-> 0]

Doc(c) ==
    CASE c = "A0" -> [sections |-> << >>, datablocks |-> << >>, lua |-> << >>]
      [] c = "A1" -> [sections |-> << Section("", "intro", {"db"}, {}, {"b"}) >>,
                      datablocks |-> << >>, lua |-> << >>]
      [] c = "A2" -> [sections |-> << Section("Setup", "steps", {"db"}, {"status"}, {}),
                                      Section("Usage", "notes", {}, {}, {"b"}) >>,
                      datablocks |-> << "person" >>, lua |-> << >>]
      [] c = "A3" -> [sections |-> << >>, datablocks |-> << "person" >>, lua |-> << >>]
      [] c = "K1" -> [sections |-> << Section("", "cfg", {}, {}, {}) >>,
                      datablocks |-> << >>,
                      lua |-> << LuaOk("theme", 1) >>]
      [] c = "K2" -> [sections |-> << Section("", "cfg", {}, {}, {}) >>,
                      datablocks |-> << >>,
                      lua |-> << LuaOk("theme", 2), LuaOk("port", 1) >>]
      [] c = "K3" -> [sections |-> << Section("", "cfg", {}, {}, {}) >>,
                      datablocks |-> << >>,
                      lua |-> << LuaBad >>]
      [] c = "S1" -> [sections |-> << Section("guide", "sql tips", {}, {}, {}),
                                      Section("extra", "db is a long text here",
                                              {}, {}, {}) >>,
                      datablocks |-> << >>, lua |-> << >>]
      [] c = "S2" -> [sections |-> << Section("notes", "#db notes", {"db"}, {}, {}) >>,
                      datablocks |-> << >>, lua |-> << >>]
      [] c = "S3" -> [sections |-> << Section("plans", "#db plans", {"db"}, {}, {}) >>,
                      datablocks |-> << >>, lua |-> << >>]
      [] OTHER    -> [sections |-> << >>, datablocks |-> << >>, lua |-> << >>]

PageContents == {"A1", "A2"}
ConfigContents == {"K1", "K3"}

ContentsOf(p) == IF p = ConfigPath THEN ConfigContents ELSE PageContents

(* hashlib.md5(bytes).hexdigest(): distinct contents have distinct digests *)
md5(c) == << "md5", c >>

(* the None of _compute_file_hash and of file_hashes.get *)
NoHash == << >>

Stem(p) ==
    CASE p = PagePath -> "a"
      [] p = OtherPage -> "b"
      [] p = ConfigPath -> "CONFIG"
      [] p = "Projects/Sub/n.md" -> "n"
      [] p = ".obsidian/h.md" -> "h"
      [] p = "_Proposals/p.md" -> "p"
      [] p = "r.rejected.md" -> "r.rejected"
      [] OTHER -> p

EndsWithMd(p) ==
    p \in {PagePath, OtherPage, ConfigPath, "Projects/Sub/n.md",
           ".obsidian/h.md", "_Proposals/p.md", "r.rejected.md"}

(* SpaceParser._should_skip_file: suffix ".proposal", a name ending in     *)
(* ".rejected.md", or "_Proposals" among the parts of the path             *)
_should_skip_file(p) ==
    \/ p = "x.proposal"
    \/ p = "r.rejected.md"
    \/ \E i \in 1..Len(DirsOf(p)) : DirsOf(p)[i] = "_Proposals"

(* SpaceParser._should_skip_directory: a part that starts with "." or is   *)
(* "_Proposals"                                                            *)
_should_skip_directory(dirs) ==
    \E i \in 1..Len(dirs) : dirs[i] \in {".obsidian", "_Proposals"}

EndsWithConfigMd(p) == p = ConfigPath

(***************************************************************************)
(* Parser: one Chunk per section; file-level data blocks go to the first   *)
(* chunk, or to an empty chunk when the file has no section.               *)
(***************************************************************************)
Chunk(p, h, t, tags, attrs, links, blocks) ==
    [file_path |-> p, header |-> h, content |-> t, tags |-> tags,
     inline_attributes |-> attrs, links |-> links, data_blocks |-> blocks,
     folder_path |-> DirsOf(p)]

_create_chunk(p, s) ==
    Chunk(p, IF s.header = "" THEN Stem(p) ELSE s.header, s.text,
          s.tags, s.attrs, s.links, << >>)

_parse_file(p, c) ==
    LET d == Doc(c)
        chunks == [i \in 1..Len(d.sections) |-> _create_chunk(p, d.sections[i])]
    IN  IF chunks = << >> /\ d.datablocks # << >>
        THEN << Chunk(p, Stem(p), "", {}, {}, {}, d.datablocks) >>
        ELSE IF chunks # << >>
        THEN [chunks EXCEPT ![1].data_blocks = d.datablocks]
        ELSE << >>

(* parse_file: a missing file, a non-.md file, a file _should_skip_file     *)
(* names yields no chunks                                                  *)
parse_file(p, content) ==
    IF content = None \/ ~EndsWithMd(p) \/ _should_skip_file(p) THEN << >>
    ELSE _parse_file(p, content)

(***************************************************************************)
(* Graph store.  Node tables are sets, relationship tables are sets of     *)
(* pairs.  A chunk id is file_path#header, an attribute id chunk_id#name,  *)
(* a data block id chunk_id#datablock#idx.                                 *)
(***************************************************************************)
EmptyDB ==
    [Chunk |-> {}, Page |-> {}, Tag |-> {}, Attribute |-> {}, DataBlock |-> {},
     LINKS_TO |-> {}, TAGGED |-> {}, HAS_ATTRIBUTE |-> {},
     HAS_DATA_BLOCK |-> {}, DATA_TAGGED |-> {},
     Folder |-> {}, IN_FOLDER |-> {}, CONTAINS |-> {}]

ChunkId(ch) == << ch.file_path, ch.header >>

ChunkNode(ch) ==
    [id |-> ChunkId(ch), file_path |-> ch.file_path, header |-> ch.header,
     content |-> ch.content]

BlockNodes(ch) ==
    { [id |-> << ChunkId(ch), "datablock", i - 1 >>, tag |-> ch.data_blocks[i],
       file_path |-> ch.file_path] : i \in 1..Len(ch.data_blocks) }

AttrNodes(ch) ==
    { [id |-> << ChunkId(ch), a >>, name |-> a] : a \in ch.inline_attributes }

(* the statements index_chunks executes for one chunk *)
IndexOne(g, ch) ==
    LET id == ChunkId(ch)
        blocks == BlockNodes(ch)
        attrs == AttrNodes(ch)
    IN  [g EXCEPT
          !.Chunk = { n \in @ : n.id # id } \cup { ChunkNode(ch) },
          !.Page = @ \cup ch.links,
          !.LINKS_TO = @ \cup { << id, l >> : l \in ch.links },
          !.Tag = @ \cup ch.tags \cup { b.tag : b \in blocks },
          !.TAGGED = @ \cup { << id, t >> : t \in ch.tags },
          !.IN_FOLDER = @ \cup { << id, f.path >> :
                                  f \in { x \in g.Folder :
                                            /\ ch.folder_path # << >>
                                            /\ x.path = ch.folder_path } },
          !.Attribute = { n \in @ : n.id \notin { a.id : a \in attrs } } \cup attrs,
          !.HAS_ATTRIBUTE = @ \cup { << id, a.id >> : a \in attrs },
          !.DataBlock = { n \in @ : n.id \notin { b.id : b \in blocks } } \cup blocks,
          !.HAS_DATA_BLOCK = @ \cup { << id, b.id >> : b \in blocks },
          !.DATA_TAGGED = @ \cup { << b.id, b.tag >> : b \in blocks }]

RECURSIVE IndexPrefix(_, _, _)
IndexPrefix(g, chunks, n) ==
    IF n = 0 THEN g ELSE IndexOne(IndexPrefix(g, chunks, n - 1), chunks[n])

(* index_chunks with CREATE for the Page of a link where the code has      *)
(* MERGE: a name that was a node before the call gets a second node        *)
index_chunks_create(g, chunks) ==
    [IndexPrefix(g, chunks, Len(chunks)) EXCEPT
       !.Page = @ \cup { l \o "'" :
                           l \in g.Page \cap UNION { chunks[i].links :
                                                       i \in 1..Len(chunks) } }]

index_chunks(g, chunks) == IndexPrefix(g, chunks, Len(chunks))

(* index_folders: every folder path with all its parents becomes a Folder  *)
(* node, and CONTAINS joins each to its parent                             *)
index_folders(g, folder_paths, index_pages) ==
    LET all_folders == UNION { { SubSeq(f, 1, i) : i \in 1..Len(f) } :
                               f \in folder_paths }
        nodes == { [path |-> f, has_index_page |-> f \in index_pages] :
                     f \in all_folders }
    IN  [g EXCEPT
          !.Folder = { n \in @ : n.path \notin all_folders } \cup nodes,
          !.CONTAINS = @ \cup { << SubSeq(f, 1, Len(f) - 1), f >> :
                                  f \in { x \in all_folders : Len(x) > 1 } }]

(* delete_chunks_by_file: DETACH DELETE the chunks, then one cleanup pass  *)
(* per class in the order Tag, Page, Attribute, DataBlock.                 *)
DetachChunks(g, p) ==
    LET gone == { n.id : n \in { m \in g.Chunk : m.file_path = p } }
    IN  [g EXCEPT
          !.Chunk = { n \in @ : n.file_path # p },
          !.LINKS_TO = { e \in @ : e[1] \notin gone },
          !.TAGGED = { e \in @ : e[1] \notin gone },
          !.IN_FOLDER = { e \in @ : e[1] \notin gone },
          !.HAS_ATTRIBUTE = { e \in @ : e[1] \notin gone },
          !.HAS_DATA_BLOCK = { e \in @ : e[1] \notin gone }]

CleanupTags(g) ==
    LET keep == { t \in g.Tag :
                    (\E e \in g.TAGGED : e[2] = t) \/ (\E e \in g.DATA_TAGGED : e[2] = t) }
    IN  [g EXCEPT !.Tag = keep]

CleanupPages(g) ==
    [g EXCEPT !.Page = { pg \in @ : \E e \in g.LINKS_TO : e[2] = pg }]

CleanupAttributes(g) ==
    [g EXCEPT !.Attribute = { a \in @ : \E e \in g.HAS_ATTRIBUTE : e[2] = a.id }]

CleanupDataBlocks(g) ==
    LET keep == { b \in g.DataBlock : \E e \in g.HAS_DATA_BLOCK : e[2] = b.id }
    IN  [g EXCEPT !.DataBlock = keep,
                  !.DATA_TAGGED = { e \in @ : e[1] \in { b.id : b \in keep } }]

delete_chunks_by_file(g, p) ==
    CleanupDataBlocks(CleanupAttributes(CleanupPages(CleanupTags(DetachChunks(g, p)))))

ChunksOfFile(g, p) == { n \in g.Chunk : n.file_path = p }

ParsedNodes(p, content) ==
    LET chunks == parse_file(p, content)
    IN  { ChunkNode(chunks[i]) : i \in 1..Len(chunks) }

(***************************************************************************)
(* Config tracker.  A configuration is a set of <<key, value>> pairs with  *)
(* one value per key.                                                      *)
(***************************************************************************)
_deep_merge(base, override) ==
    { kv \in base : \A o \in override : o[1] # kv[1] } \cup override

(* a block luaparser cannot parse is logged and contributes {} *)
_parse_lua_config(block) ==
    IF block.ok THEN { << block.key, block.value >> } ELSE {}

RECURSIVE MergeBlocks(_, _)
MergeBlocks(blocks, n) ==
    IF n = 0 THEN {}
    ELSE _deep_merge(MergeBlocks(blocks, n - 1), _parse_lua_config(blocks[n]))

parse_config_page(c) == MergeBlocks(Doc(c).lua, Len(Doc(c).lua))

Unparseable(c) == \E i \in 1..Len(Doc(c).lua) : ~Doc(c).lua[i].ok

(* json.dumps(config, indent=2) and json.loads of it *)
JsonDoc(config) == [file |-> "complete", json |-> config]
(* space_config.json opened for writing and not written yet; no such file *)
Truncated == [file |-> "empty", json |-> {}]
Absent == [file |-> "absent", json |-> {}]

(***************************************************************************)
(* State.                                                                  *)
(***************************************************************************)
VARIABLES
    disk,                 \* md path -> content version on disk, or None
    queue,                \* events the observer has not dispatched yet
    clock,                \* time.time()
    db,                   \* the graph store
    file_hashes,          \* SpaceWatcher.file_hashes
    debounce_time,        \* SpaceWatcher.debounce_time
    currently_processing, \* SpaceWatcher.currently_processing
    space_config,         \* the file space_config.json
    th,                   \* handler threads: position and locals
    fsops,                \* filesystem operations so far
    faults,               \* embedding and store failures so far
    deleted,              \* md paths that were deleted at some time
    last_op,              \* StoreSpec: the store operation that returned last
    req,                  \* PathSpec: the request being served
    fs_access,            \* PathSpec: file operations the handlers performed
    sup                   \* SupSpec: the supervisor

vars == << disk, queue, clock, db, file_hashes, debounce_time,
           currently_processing, space_config, th, fsops, faults,
           deleted, last_op, req, fs_access, sup >>

(* a thread: where it is in the handler, the handler's locals (path, now, *)
(* chunks, config) and what the handler saw on the way: the json document *)
(* and the file's chunks when it started, whether CONFIG.md had a block    *)
(* that does not parse, the exception that was raised                      *)
Idle == [pc |-> "idle", path |-> None, now |-> 0, chunks |-> << >>,
         config |-> {}, json_before |-> Absent, unparseable |-> FALSE,
         chunks_before |-> {}, error |-> None]

Event(kind, p, isdir) == [kind |-> kind, src_path |-> p, is_directory |-> isdir]

(* dict.get(path, default) *)
Get(map, p, default) == IF p \in DOMAIN map THEN map[p] ELSE default

Put(map, p, v) == [q \in DOMAIN map \cup {p} |-> IF q = p THEN v ELSE map[q]]

(* _compute_file_hash: None when the file cannot be read *)
_compute_file_hash(p) == IF disk[p] = None THEN NoHash ELSE md5(disk[p])

(* _has_content_changed without the comparison of the two hashes *)
_has_content_changed_nogate(p) == TRUE

(* _has_content_changed *)
_has_content_changed(p) ==
    LET current_hash == _compute_file_hash(p)
        previous_hash == Get(file_hashes, p, NoHash)
    IN  IF current_hash = NoHash THEN TRUE
        ELSE IF previous_hash = NoHash THEN TRUE
        ELSE current_hash # previous_hash

(* parse_space over the md files on disk, in glob order *)
RECURSIVE ParseAll(_, _)
ParseAll(d, paths) ==
    IF paths = {} THEN << >>
    ELSE LET p == CHOOSE q \in paths : TRUE
         IN  parse_file(p, d[p]) \o ParseAll(d, paths \ {p})

(* glob("**/*.md") less the files _should_skip_file names *)
parse_space(d) ==
    ParseAll(d, { p \in DOMAIN d : EndsWithMd(p) /\ ~_should_skip_file(p) })

(* the hash cache reindex_all builds over glob("**/*.md") *)
HashesOf(d) ==
    [p \in { q \in DOMAIN d : EndsWithMd(q) /\ d[q] # None } |-> md5(d[p])]

(* the parts of the state a specification does not use *)
NoStoreOp == last_op = "none"
NoRequest == req = [handler |-> None] /\ fs_access = {}
NoSupervisor == sup = [pc |-> "none"]

(***************************************************************************)
(* Filesystem and clock.                                                   *)
(***************************************************************************)
Enqueue(e) == queue' = Append(queue, e)

FsBudget == fsops < MaxFsOps

(* a write to an md file: "created" when it did not exist, else "modified" *)
FsWrite(p, c) ==
    /\ FsBudget
    /\ disk' = [disk EXCEPT ![p] = c]
    /\ Enqueue(Event(IF disk[p] = None THEN "created" ELSE "modified", p, FALSE))
    /\ fsops' = fsops + 1
    /\ UNCHANGED << clock, db, file_hashes, debounce_time, currently_processing,
                    space_config, th, faults, deleted,
                    last_op, req, fs_access, sup >>

FsDelete(p) ==
    /\ FsBudget
    /\ disk[p] # None
    /\ disk' = [disk EXCEPT ![p] = None]
    /\ Enqueue(Event("deleted", p, FALSE))
    /\ fsops' = fsops + 1
    /\ deleted' = deleted \cup {p}
    /\ UNCHANGED << clock, db, file_hashes, debounce_time, currently_processing,
                    space_config, th, faults,
                    last_op, req, fs_access, sup >>

(* a change to something that is not an md file: a text file or a directory *)
FsOther(kind, p, isdir) ==
    /\ FsBudget
    /\ Enqueue(Event(kind, p, isdir))
    /\ fsops' = fsops + 1
    /\ UNCHANGED << disk, clock, db, file_hashes, debounce_time,
                    currently_processing, space_config, th, faults, deleted,
                    last_op, req, fs_access, sup >>

Tick ==
    /\ clock < Epoch + MaxTicks * TickStep
    /\ clock' = clock + TickStep
    /\ UNCHANGED << disk, queue, db, file_hashes, debounce_time,
                    currently_processing, space_config, th, fsops, faults,
                   deleted,
                    last_op, req, fs_access, sup >>

(***************************************************************************)
(* Handler threads.  Each action is one step of on_modified / on_created / *)
(* on_deleted; everything done under processing_lock is one step, every    *)
(* store call is one step.                                                 *)
(***************************************************************************)
Goto(t, label) == th' = [th EXCEPT ![t].pc = label]
Return(t) == th' = [th EXCEPT ![t] = Idle]

(* an exception that leaves _reindex_file without its finally clause *)
Raise_no_finally(t, e) == th' = [th EXCEPT ![t] = Idle]

(* an exception inside the try block of _reindex_file: logged, then the    *)
(* finally clause runs                                                     *)
Raise(t, e) == th' = [th EXCEPT ![t].error = e, ![t].pc = "_unmark_processing"]

(* the observer takes the next event and calls its handler on a free      *)
(* thread (the first free one: the threads are interchangeable)            *)
FirstFree(t) == th[t].pc = "idle" /\ (t = "t1" \/ th["t1"].pc # "idle")

Dispatch(t) ==
    /\ FirstFree(t)
    /\ queue # << >>
    /\ queue' = Tail(queue)
    /\ LET event == Head(queue)
       IN  IF event.is_directory \/ ~EndsWithMd(event.src_path)
           THEN Return(t)
           ELSE th' = [th EXCEPT ![t] =
                         [Idle EXCEPT !.path = event.src_path,
                                      !.pc = IF event.kind = "deleted"
                                             THEN "on_deleted"
                                             ELSE "_should_process"]]
    /\ UNCHANGED << disk, clock, db, file_hashes, debounce_time,
                    currently_processing, space_config, fsops, faults, deleted,
                    last_op, req, fs_access, sup >>

(* _should_process, the debounce test *)
ShouldProcessDebounce(t) ==
    /\ th[t].pc = "_should_process"
    /\ LET now == clock
           last_time == Get(debounce_time, th[t].path, 0)
       IN  IF now - last_time < DebounceWindow
           THEN Return(t)
           ELSE th' = [th EXCEPT ![t].now = now, ![t].pc = "check_processing"]
    /\ UNCHANGED << disk, queue, clock, db, file_hashes, debounce_time,
                    currently_processing, space_config, fsops, faults, deleted,
                    last_op, req, fs_access, sup >>

(* _should_process, the test under processing_lock *)
ShouldProcessLocked(t) ==
    /\ th[t].pc = "check_processing"
    /\ IF th[t].path \in currently_processing
       THEN Return(t)
       ELSE Goto(t, "_has_content_changed")
    /\ UNCHANGED << disk, queue, clock, db, file_hashes, debounce_time,
                    currently_processing, space_config, fsops, faults, deleted,
                    last_op, req, fs_access, sup >>

(* _should_process, the content hash gate *)
ShouldProcessHash(t) ==
    /\ th[t].pc = "_has_content_changed"
    /\ IF _has_content_changed(th[t].path)
       THEN Goto(t, "_mark_processing") /\ UNCHANGED debounce_time
       ELSE /\ debounce_time' = Put(debounce_time, th[t].path, th[t].now)
            /\ Return(t)
    /\ UNCHANGED << disk, queue, clock, db, file_hashes,
                    currently_processing, space_config, fsops, faults, deleted,
                    last_op, req, fs_access, sup >>

(* the log line of on_modified / on_created for an event that went on to  *)
(* _reindex_file and was marked at time now                                *)
Accepted(p, now) == "accepted " \o p \o " at " \o ToString(now)

(* _mark_processing that does not test currently_processing *)
_mark_processing_unguarded(t) ==
    /\ th[t].pc = "_mark_processing"
    /\ currently_processing' = currently_processing \cup {th[t].path}
    /\ debounce_time' = Put(debounce_time, th[t].path, clock)
    /\ last_op' = Accepted(th[t].path, clock)
    /\ th' = [th EXCEPT ![t].chunks_before = ChunksOfFile(db, th[t].path),
                        ![t].pc = IF EndsWithConfigMd(th[t].path)
                                  THEN "_handle_config_change"
                                  ELSE "delete"]
    /\ UNCHANGED << disk, queue, clock, db, file_hashes, space_config,
                    fsops, faults, deleted,
                    req, fs_access, sup >>

_mark_processing(t) ==
    /\ th[t].pc = "_mark_processing"
    /\ IF th[t].path \in currently_processing
       THEN Return(t) /\ UNCHANGED << currently_processing, debounce_time,
                                      last_op >>
       ELSE /\ currently_processing' = currently_processing \cup {th[t].path}
            /\ debounce_time' = Put(debounce_time, th[t].path, clock)
            /\ last_op' = Accepted(th[t].path, clock)
            /\ th' = [th EXCEPT ![t].chunks_before = ChunksOfFile(db, th[t].path),
                                ![t].pc = IF EndsWithConfigMd(th[t].path)
                                          THEN "_handle_config_change"
                                          ELSE "delete"]
    /\ UNCHANGED << disk, queue, clock, db, file_hashes, space_config,
                    fsops, faults, deleted,
                    req, fs_access, sup >>

(* _handle_config_change: read and parse CONFIG.md, open space_config.json *)
(* for writing; a missing CONFIG.md raises and is logged                   *)
_handle_config_change(t) ==
    /\ th[t].pc = "_handle_config_change"
    /\ IF disk[th[t].path] = None
       THEN Goto(t, "delete") /\ UNCHANGED space_config
       ELSE /\ th' = [th EXCEPT ![t].config = parse_config_page(disk[th[t].path]),
                                ![t].json_before = space_config,
                                ![t].unparseable = Unparseable(disk[th[t].path]),
                                ![t].pc = "write_config_json"]
            /\ space_config' = Truncated
    /\ UNCHANGED << disk, queue, clock, db, file_hashes, debounce_time,
                    currently_processing, fsops, faults, deleted,
                    last_op, req, fs_access, sup >>

(* write_config_json: the document reaches the file, or the write raises   *)
(* and _handle_config_change logs the exception and returns                *)
write_config_json(t) ==
    /\ th[t].pc = "write_config_json"
    /\ \/ /\ space_config' = JsonDoc(th[t].config)
          /\ Goto(t, "delete")
          /\ UNCHANGED faults
       \/ /\ faults < MaxFaults
          /\ faults' = faults + 1
          /\ th' = [th EXCEPT ![t].pc = "delete", ![t].error = "config"]
          /\ UNCHANGED space_config
    /\ UNCHANGED << disk, queue, clock, db, file_hashes, debounce_time,
                    currently_processing, fsops, deleted,
                    last_op, req, fs_access, sup >>

(* graph_db.delete_chunks_by_file in _reindex_file; a store error leaves   *)
(* the try block                                                           *)
ReindexDelete(t) ==
    /\ th[t].pc = "delete"
    /\ \/ /\ db' = delete_chunks_by_file(db, th[t].path)
          /\ Goto(t, "parse_file")
          /\ UNCHANGED faults
       \/ /\ faults < MaxFaults
          /\ faults' = faults + 1
          /\ Raise(t, "store")
          /\ UNCHANGED db
    /\ UNCHANGED << disk, queue, clock, file_hashes, debounce_time,
                    currently_processing, space_config, fsops, deleted,
                    last_op, req, fs_access, sup >>

(* parser.parse_file reads the file as it is now; an exception inside the  *)
(* parser is logged by parse_file, which then returns no chunks            *)
ReindexParse(t) ==
    /\ th[t].pc = "parse_file"
    /\ \/ /\ LET chunks == parse_file(th[t].path, disk[th[t].path])
             IN  th' = [th EXCEPT ![t].chunks = chunks,
                                  ![t].pc = IF chunks # << >>
                                            THEN "index_chunks"
                                            ELSE "_update_file_hash"]
          /\ UNCHANGED faults
       \/ /\ faults < MaxFaults
          /\ faults' = faults + 1
          /\ th' = [th EXCEPT ![t].chunks = << >>, ![t].error = "parser",
                              ![t].pc = "_update_file_hash"]
    /\ UNCHANGED << disk, queue, clock, db, file_hashes, debounce_time,
                    currently_processing, space_config, fsops, deleted,
                    last_op, req, fs_access, sup >>

(* graph_db.index_chunks: the embedding batch call comes first and may     *)
(* raise; a store error stops the per-chunk loop after n chunks            *)
ReindexIndex(t) ==
    /\ th[t].pc = "index_chunks"
    /\ \/ /\ db' = index_chunks(db, th[t].chunks)
          /\ Goto(t, "_update_file_hash")
          /\ UNCHANGED faults
       \/ /\ faults < MaxFaults
          /\ faults' = faults + 1
          /\ \/ Raise(t, "embedding") /\ UNCHANGED db
             \/ /\ Raise(t, "store")
                /\ \E n \in 0..(Len(th[t].chunks) - 1) :
                      db' = IndexPrefix(db, th[t].chunks, n)
    /\ UNCHANGED << disk, queue, clock, file_hashes, debounce_time,
                    currently_processing, space_config, fsops, deleted,
                    last_op, req, fs_access, sup >>

_update_file_hash(t) ==
    /\ th[t].pc = "_update_file_hash"
    /\ LET current_hash == _compute_file_hash(th[t].path)
       IN  file_hashes' = IF current_hash # NoHash
                          THEN Put(file_hashes, th[t].path, current_hash)
                          ELSE file_hashes
    /\ Goto(t, "_unmark_processing")
    /\ UNCHANGED << disk, queue, clock, db, debounce_time,
                    currently_processing, space_config, fsops, faults, deleted,
                    last_op, req, fs_access, sup >>

_unmark_processing(t) ==
    /\ th[t].pc = "_unmark_processing"
    /\ currently_processing' = currently_processing \ {th[t].path}
    /\ Return(t)
    /\ UNCHANGED << disk, queue, clock, db, file_hashes, debounce_time,
                    space_config, fsops, faults, deleted,
                    last_op, req, fs_access, sup >>

(* on_deleted: delete_chunks_by_file, an error is logged *)
on_deleted(t) ==
    /\ th[t].pc = "on_deleted"
    /\ \/ db' = delete_chunks_by_file(db, th[t].path) /\ UNCHANGED faults
       \/ faults < MaxFaults /\ faults' = faults + 1 /\ UNCHANGED db
    /\ Return(t)
    /\ UNCHANGED << disk, queue, clock, file_hashes, debounce_time,
                    currently_processing, space_config, fsops, deleted,
                    last_op, req, fs_access, sup >>

ThreadStep(t) ==
    \/ Dispatch(t)
    \/ ShouldProcessDebounce(t)
    \/ ShouldProcessLocked(t)
    \/ ShouldProcessHash(t)
    \/ _mark_processing(t)
    \/ _handle_config_change(t)
    \/ write_config_json(t)
    \/ ReindexDelete(t)
    \/ ReindexParse(t)
    \/ ReindexIndex(t)
    \/ _update_file_hash(t)
    \/ _unmark_processing(t)
    \/ on_deleted(t)

(***************************************************************************)
(* Spec: the watcher of the unified server, from the moment the observer   *)
(* has started after a full reindex_all of the space into an empty store.  *)
(***************************************************************************)
InitialDisks ==
    { [p \in MdPaths |-> IF p = ConfigPath THEN k ELSE a] :
        a \in {"A1"}, k \in {None} }

Init ==
    /\ disk \in InitialDisks
    /\ queue = << >>
    /\ clock = Epoch
    /\ db = index_chunks(EmptyDB, parse_space(disk))
    /\ file_hashes = HashesOf(disk)
    /\ debounce_time = << >>
    /\ currently_processing = {}
    /\ space_config = Absent
    /\ th = [t \in Threads |-> Idle]
    /\ fsops = 0
    /\ faults = 0
    /\ deleted = {}
    /\ NoStoreOp /\ NoRequest /\ NoSupervisor

Next ==
    \/ \E p \in MdPaths : \E c \in ContentsOf(p) : FsWrite(p, c)
    \/ \E p \in MdPaths : FsDelete(p)
    \/ FsOther("modified", TextPath, FALSE)
    \/ FsOther("created", DirPath, TRUE)
    \/ Tick
    \/ \E t \in Threads : ThreadStep(t)

Spec == Init /\ [][Next]_vars

(* every handler thread of the observer keeps running *)
FairSpec == Spec /\ \A t \in Threads : WF_vars(ThreadStep(t))

(***************************************************************************)
(* Properties of the watcher (Spec, FairSpec).                             *)
(***************************************************************************)
Quiescent == queue = << >> /\ \A t \in Threads : th[t] = Idle

HashUnchanged(p) == disk[p] # None /\ Get(file_hashes, p, NoHash) = md5(disk[p])

(* the part of _reindex_file between _mark_processing and the end of       *)
(* _unmark_processing                                                      *)
ReindexSection ==
    {"_handle_config_change", "write_config_json", "delete", "parse_file",
     "index_chunks", "_update_file_hash", "_unmark_processing"}

Reindexing(p) == { t \in Threads : th[t].path = p /\ th[t].pc \in ReindexSection }

(* C1: once every create and modify event of a file has been handled and   *)
(* nothing is in flight, the store's chunks of the file are those of       *)
(* parsing its content on disk (no deletion of the file, no failure of the *)
(* embedding call or the store involved).                                  *)
C1_StoreFollowsDisk ==
    \A p \in MdPaths :
        (Quiescent /\ faults = 0 /\ p \notin deleted /\ disk[p] # None)
            => ChunksOfFile(db, p) = ParsedNodes(p, disk[p])

(* C2: the step of a handler that finds the file's MD5 equal to            *)
(* file_hashes[path] ends the handler, and leaves the store, file_hashes   *)
(* and currently_processing as they are: no delete_by_file, no upsert.     *)
C2_HashGateNoMutation ==
    [][\A t \in Threads :
          (th[t].pc = "_has_content_changed" /\ HashUnchanged(th[t].path)
             /\ th'[t] # th[t])
          => (th'[t] = Idle /\ db' = db /\ file_hashes' = file_hashes
                /\ currently_processing' = currently_processing)]_vars

(* an event for an unchanged a.md went through the gate: the debounce time *)
(* of a.md is set although a.md was never re-indexed                       *)
C2_Witness ==
    /\ Quiescent
    /\ fsops = 1
    /\ PagePath \in DOMAIN debounce_time
    /\ HashUnchanged(PagePath)
    /\ disk[PagePath] = "A1"
    /\ ChunksOfFile(db, PagePath) = ParsedNodes(PagePath, "A1")

(* C3: for every path at most one thread is between _mark_processing and   *)
(* _unmark_processing of _reindex_file.                                    *)
C3_OneReindexPerPath ==
    \A p \in MdPaths : Cardinality(Reindexing(p)) <= 1

(* one thread re-indexes the path, another passed _should_process for the  *)
(* same path and is about to call _mark_processing                         *)
C3_Witness ==
    \E t, u \in Threads :
        /\ t # u
        /\ th[t].pc \in ReindexSection
        /\ th[u].pc = "_mark_processing"
        /\ th[u].path = th[t].path

(* C4: when the file is gone from disk, its delete event has been handled  *)
(* and nothing is in flight, the store holds no chunk of the file (no      *)
(* failure of the embedding call or the store involved).                   *)
C4_NoChunksAfterDelete ==
    \A p \in MdPaths :
        (Quiescent /\ faults = 0 /\ p \in deleted /\ disk[p] = None)
            => ChunksOfFile(db, p) = {}

(* C5: when the embedding call of a re-index has failed, the store holds   *)
(* the chunks the file had when that re-index began.                       *)
C5_EmbeddingFailureKeepsChunks ==
    \A t \in Threads :
        (th[t].pc = "_unmark_processing" /\ th[t].error = "embedding")
            => ChunksOfFile(db, th[t].path) = th[t].chunks_before

(* C7: every path in currently_processing is eventually removed from it.   *)
C7_ProcessingCleared ==
    \A p \in MdPaths :
        (p \in currently_processing) ~> (p \notin currently_processing)

(* the finally clause is about to run after an exception *)
C7_Witness ==
    \E t \in Threads :
        /\ th[t].pc = "_unmark_processing"
        /\ th[t].error \in {"store", "embedding"}
        /\ th[t].path \in currently_processing

(* C9: writing space_config.json for a CONFIG.md that has a space-lua      *)
(* block which does not parse leaves the document that was there before    *)
(* (stated for a handler that found a complete document, and with no       *)
(* failure of the write, the store or the embedding call).                 *)
C9_BadConfigKeepsJson ==
    [][\A t \in Threads :
          (th[t].pc = "write_config_json" /\ th[t].unparseable
             /\ th[t].json_before.file = "complete" /\ th'[t] # th[t]
             /\ faults' = 0)
          => space_config' = th[t].json_before]_vars

(***************************************************************************)
(* StoreSpec: the graph store under index_chunks and delete_chunks_by_file *)
(* of parsed files, from the empty store.                                  *)
(***************************************************************************)
StorePaths == {PagePath, OtherPage}
StoreContents == {"A0", "A1", "A2", "A3", "K1"}

StoreIndex(p, c) ==
    /\ db' = index_chunks(db, parse_file(p, c))
    /\ last_op' = "index_chunks"
    /\ UNCHANGED << disk, queue, clock, file_hashes, debounce_time,
                    currently_processing, space_config, th, fsops, faults,
                    deleted, req, fs_access, sup >>

StoreDelete(p) ==
    /\ db' = delete_chunks_by_file(db, p)
    /\ last_op' = "delete_chunks_by_file"
    /\ UNCHANGED << disk, queue, clock, file_hashes, debounce_time,
                    currently_processing, space_config, th, fsops, faults,
                    deleted, req, fs_access, sup >>

StoreInit ==
    /\ db = EmptyDB
    /\ last_op = "none"
    /\ disk = [p \in MdPaths |-> None]
    /\ queue = << >>
    /\ clock = Epoch
    /\ file_hashes = << >>
    /\ debounce_time = << >>
    /\ currently_processing = {}
    /\ space_config = Absent
    /\ th = [t \in Threads |-> Idle]
    /\ fsops = 0
    /\ faults = 0
    /\ deleted = {}
    /\ NoRequest /\ NoSupervisor

StoreNext ==
    \/ \E p \in StorePaths : \E c \in StoreContents : StoreIndex(p, c)
    \/ \E p \in StorePaths : StoreDelete(p)

StoreSpec == StoreInit /\ [][StoreNext]_vars

TagHasEdge(g, t) ==
    (\E e \in g.TAGGED : e[2] = t) \/ (\E e \in g.DATA_TAGGED : e[2] = t)

NoOrphans(g) ==
    /\ \A t \in g.Tag : TagHasEdge(g, t)
    /\ \A a \in g.Attribute : \E e \in g.HAS_ATTRIBUTE : e[2] = a.id
    /\ \A b \in g.DataBlock : \E e \in g.HAS_DATA_BLOCK : e[2] = b.id

(* C6: when delete_chunks_by_file has returned, every Tag has an incoming  *)
(* TAGGED or DATA_TAGGED edge, every Attribute an incoming HAS_ATTRIBUTE   *)
(* edge and every DataBlock an incoming HAS_DATA_BLOCK edge.               *)
C6_DeleteLeavesNoOrphans ==
    last_op = "delete_chunks_by_file" => NoOrphans(db)

(***************************************************************************)
(* Request handlers that take a page, folder or proposal path              *)
(* (grpc_server.py; the MCP tools in mcp/tools/pages.py and                *)
(* mcp/tools/proposals.py run the same statements).                        *)
(*                                                                         *)
(* A path is a sequence of names below "/".  A name is a stem and the      *)
(* suffixes appended to it, so that "x", "x.md" and "x.md.proposal" are    *)
(* three names.  Symbolic links are not modelled.                          *)
(***************************************************************************)
MaxParts == 2

Name(stem, ext) == [stem |-> stem, ext |-> ext]
DotDot == Name("..", << >>)
WithSuffix(n, suf) == [n EXCEPT !.ext = Append(@, suf)]
endswith(n, suf) == Len(n.ext) > 0 /\ n.ext[Len(n.ext)] = suf

(* self.space_path: SPACE_PATH, "/space" unless set *)
SpaceRoot == << Name("space", << >>) >>

RequestNames ==
    { DotDot, Name("space", << >>), Name("d", << >>), Name("x", << >>),
      Name("x", << ".md" >>), Name("x", << ".proposal" >>) }

(* a request string: a leading "/" or none, then names separated by "/" *)
RequestPaths ==
    [ abs : BOOLEAN,
      parts : UNION { [1..n -> RequestNames] : n \in 1..MaxParts } ]

(* pathlib: space_path / request_path *)
Join(root, p) == IF p.abs THEN p.parts ELSE root \o p.parts

RECURSIVE ResolveFrom(_, _)
ResolveFrom(done, rest) ==
    IF rest = << >> THEN done
    ELSE IF Head(rest) = DotDot
         THEN ResolveFrom(IF done = << >> THEN << >>
                          ELSE SubSeq(done, 1, Len(done) - 1), Tail(rest))
         ELSE ResolveFrom(Append(done, Head(rest)), Tail(rest))

(* Path.resolve() *)
resolve(path) == ResolveFrom(<< >>, path)

(* PurePath.is_relative_to / relative_to: a comparison of the parts *)
is_relative_to(a, b) == Len(b) <= Len(a) /\ SubSeq(a, 1, Len(b)) = b

(* the security check of ReadPage, ProposeChange and WithdrawProposal *)
InsideSpace(path) == is_relative_to(resolve(path), resolve(SpaceRoot))

Front(parts) == SubSeq(parts, 1, Len(parts) - 1)
Last(parts) == parts[Len(parts)]

(* get_proposal_path: "_Proposals/" + target_page + ".proposal" *)
get_proposal_path(p) ==
    << Name("_Proposals", << >>) >> \o Front(p.parts)
        \o << WithSuffix(Last(p.parts), ".proposal") >>

(* GetProjectContext: parts = folder_path.split("/"), the index file is    *)
(* space_path / "/".join(parts[:-1]) / (parts[-1] + ".md")                 *)
IndexFile(p) ==
    LET file == << WithSuffix(Last(p.parts), ".md") >>
    IN  IF p.abs /\ Len(p.parts) > 1
        THEN Front(p.parts) \o file
        ELSE SpaceRoot \o Front(p.parts) \o file

Access(op, path) == [op |-> op, target |-> resolve(path)]

Respond(h, p, fs, ok, err, acc) ==
    /\ req' = [handler |-> h, path |-> p, fs |-> fs, success |-> ok,
               error |-> err]
    /\ fs_access' = acc
    /\ UNCHANGED << disk, queue, clock, db, file_hashes, debounce_time,
                    currently_processing, space_config, th, fsops, faults,
                    deleted, last_op, sup >>

(* what the environment holds at the path a handler looks at *)
FsKinds == {"missing", "file", "dir"}

ReadPage(p, fs) ==
    LET page_path == Join(SpaceRoot, p)
    IN  IF ~InsideSpace(page_path)
        THEN Respond("ReadPage", p, fs, FALSE, "Invalid page name", {})
        ELSE IF fs = "missing"
        THEN Respond("ReadPage", p, fs, FALSE, "not found", {})
        ELSE IF fs = "dir"
        THEN Respond("ReadPage", p, fs, FALSE, "IsADirectoryError", {})
        ELSE Respond("ReadPage", p, fs, TRUE, None,
                     {Access("read", page_path)})

ProposeChange(p, enabled, fs) ==
    LET target_path == Join(SpaceRoot, p)
        full_path == SpaceRoot \o get_proposal_path(p)
    IN  IF ~enabled
        THEN Respond("ProposeChange", p, fs, FALSE,
                     "Proposals library not installed", {})
        ELSE IF ~InsideSpace(target_path)
        THEN Respond("ProposeChange", p, fs, FALSE, "Invalid page name", {})
        ELSE IF fs = "dir"
        THEN Respond("ProposeChange", p, fs, FALSE, "IsADirectoryError", {})
        ELSE Respond("ProposeChange", p, fs, TRUE, None,
                     {Access("write", full_path)})

WithdrawProposal(p, enabled, fs) ==
    LET full_path == Join(SpaceRoot, p)
    IN  IF ~enabled
        THEN Respond("WithdrawProposal", p, fs, FALSE,
                     "Proposals library not installed", {})
        ELSE IF ~InsideSpace(full_path)
        THEN Respond("WithdrawProposal", p, fs, FALSE,
                     "Invalid proposal path", {})
        ELSE IF fs = "missing"
        THEN Respond("WithdrawProposal", p, fs, FALSE,
                     "Proposal not found", {})
        ELSE IF ~endswith(Last(p.parts), ".proposal")
        THEN Respond("WithdrawProposal", p, fs, FALSE,
                     "Not a proposal file", {})
        ELSE IF fs = "dir"
        THEN Respond("WithdrawProposal", p, fs, FALSE, "IsADirectoryError",
                     {})
        ELSE Respond("WithdrawProposal", p, fs, TRUE, None,
                     {Access("delete", full_path)})

(* what the environment holds at the folder GetProjectContext falls back   *)
(* to: nothing, a folder without pages, a folder whose page has no         *)
(* frontmatter, a folder whose page has frontmatter                        *)
FolderKinds == {"missing", "empty", "plain", "project"}

(* the tail of GetProjectContext once project_file is set: read_text,      *)
(* then project_file.relative_to(space_path), which raises ValueError      *)
(* when the parts of project_file do not start with those of space_path    *)
ProjectFound(p, fs, project_file, acc) ==
    IF is_relative_to(project_file, SpaceRoot)
    THEN Respond("GetProjectContext", p, fs, TRUE, None,
                 acc \cup {Access("read", project_file)})
    ELSE Respond("GetProjectContext", p, fs, FALSE, "ValueError",
                 acc \cup {Access("read", project_file)})

(* GetProjectContext with folder_path set and github_remote empty *)
GetProjectContext(p, fs, folder) ==
    LET index_file == IndexFile(p)
        folder_dir == Join(SpaceRoot, p)
        md_file == folder_dir \o << Name("p", << ".md" >>) >>
    IN  IF fs = "file"
        THEN ProjectFound(p, << fs, folder >>, index_file,
                          {Access("read", index_file)})
        ELSE IF fs = "dir"
        THEN Respond("GetProjectContext", p, << fs, folder >>, FALSE,
                     "IsADirectoryError", {})
        ELSE IF folder = "project"
        THEN ProjectFound(p, << fs, folder >>, md_file,
                          {Access("read", md_file)})
        ELSE IF folder = "plain"
        THEN Respond("GetProjectContext", p, << fs, folder >>, FALSE,
                     "No project found", {Access("read", md_file)})
        ELSE Respond("GetProjectContext", p, << fs, folder >>, FALSE,
                     "No project found", {})

PathInit ==
    /\ NoRequest
    /\ db = EmptyDB
    /\ last_op = "none"
    /\ disk = [p \in MdPaths |-> None]
    /\ queue = << >>
    /\ clock = Epoch
    /\ file_hashes = << >>
    /\ debounce_time = << >>
    /\ currently_processing = {}
    /\ space_config = Absent
    /\ th = [t \in Threads |-> Idle]
    /\ fsops = 0
    /\ faults = 0
    /\ deleted = {}
    /\ NoSupervisor

PathNext ==
    \/ \E p \in RequestPaths : \E fs \in FsKinds : ReadPage(p, fs)
    \/ \E p \in RequestPaths : \E enabled \in BOOLEAN : \E fs \in FsKinds :
          ProposeChange(p, enabled, fs)
    \/ \E p \in RequestPaths : \E enabled \in BOOLEAN : \E fs \in FsKinds :
          WithdrawProposal(p, enabled, fs)
    \/ \E p \in RequestPaths : \E fs \in FsKinds : \E folder \in FolderKinds :
          GetProjectContext(p, fs, folder)

PathSpec == PathInit /\ [][PathNext]_vars

(* C8: a handler given a page, folder or proposal path that resolves       *)
(* outside the space root answers with a failure and has read, written     *)
(* and deleted no file (for GetProjectContext: stated for a folder path    *)
(* whose index page resolves outside the space root as well).              *)
C8_EscapingPathRejected ==
    (/\ req.handler # None
     /\ ~InsideSpace(Join(SpaceRoot, req.path))
     /\ req.handler = "GetProjectContext" => ~InsideSpace(IndexFile(req.path)))
        => (~req.success /\ fs_access = {})

(***************************************************************************)
(* SupSpec: UnifiedServer.run, from the construction of the server to the  *)
(* end of _shutdown.  sup.log is the sequence of the milestones reached.   *)
(***************************************************************************)
SupDisks ==
    { [p \in MdPaths |-> IF p = ConfigPath THEN k ELSE a] :
        a \in {None, "A1", "A2"}, k \in {None, "K1", "K3"} }

(* the store directory is empty or holds what an earlier run left *)
SupStores == { EmptyDB, index_chunks(EmptyDB, parse_file(PagePath, "A1")) }

Constructed ==
    [pc |-> "_init_mcp_dependencies", log |-> << >>, deps |-> FALSE,
     watcher_observer |-> "none", grpc_server |-> "none",
     mcp_thread |-> FALSE, shutdown_event |-> FALSE,
     graph_db_holders |-> {"UnifiedServer", "hybrid_search"}]

SupGoto(pc, milestone) ==
    [sup EXCEPT !.pc = pc, !.log = Append(@, milestone)]

SupRest ==
    UNCHANGED << disk, queue, clock, debounce_time, currently_processing,
                 space_config, th, fsops, deleted, last_op, req, fs_access >>

(* run: self._init_mcp_dependencies() *)
_init_mcp_dependencies ==
    /\ sup.pc = "_init_mcp_dependencies"
    /\ sup' = [sup EXCEPT !.pc = "reindex_all", !.deps = TRUE,
                          !.graph_db_holders = @ \cup {"mcp_deps"}]
    /\ UNCHANGED << db, file_hashes, faults >>
    /\ SupRest

(* _start_watcher: self.space_watcher.reindex_all(); an exception of the   *)
(* parser or the store is logged inside reindex_all, which then returns    *)
(* without the hash cache                                                  *)
reindex_all ==
    /\ sup.pc = "reindex_all"
    /\ \/ /\ db' = index_chunks(db, parse_space(disk))
          /\ file_hashes' = HashesOf(disk)
          /\ UNCHANGED faults
       \/ /\ faults < MaxFaults
          /\ faults' = faults + 1
          /\ UNCHANGED << db, file_hashes >>
    /\ sup' = [SupGoto("watcher_observer_start", "reindex_all")
                 EXCEPT !.graph_db_holders = @ \cup {"space_watcher"}]
    /\ SupRest

(* watcher_observer_start taken while reindex_all has not run yet *)
watcher_observer_start_early ==
    /\ sup.pc \in {"reindex_all", "watcher_observer_start"}
    /\ sup.watcher_observer = "none"
    /\ sup' = [sup EXCEPT !.pc = IF @ = "reindex_all" THEN @
                                 ELSE "_start_grpc_server",
                          !.log = Append(@, "watcher_observer.start"),
                          !.watcher_observer = "running"]
    /\ UNCHANGED << db, file_hashes, faults >>
    /\ SupRest

(* _start_watcher: Observer(), schedule, start; start may raise, and run's *)
(* finally clause then shuts down                                          *)
watcher_observer_start ==
    /\ sup.pc = "watcher_observer_start"
    /\ \/ sup' = [SupGoto("_start_grpc_server", "watcher_observer.start")
                    EXCEPT !.watcher_observer = "running"]
       \/ sup' = [sup EXCEPT !.pc = "_shutdown",
                             !.watcher_observer = "created"]
    /\ UNCHANGED << db, file_hashes, faults >>
    /\ SupRest

(* await self._start_grpc_server(); binding the port may raise *)
_start_grpc_server ==
    /\ sup.pc = "_start_grpc_server"
    /\ \/ sup' = [SupGoto("mcp_thread_start", "grpc_server.start")
                    EXCEPT !.grpc_server = "running",
                           !.graph_db_holders = @ \cup {"servicer"}]
       \/ sup' = [sup EXCEPT !.pc = "_shutdown", !.grpc_server = "created",
                             !.graph_db_holders = @ \cup {"servicer"}]
    /\ UNCHANGED << db, file_hashes, faults >>
    /\ SupRest

(* mcp_thread = threading.Thread(target=self._run_mcp_server); start() *)
mcp_thread_start ==
    /\ sup.pc = "mcp_thread_start"
    /\ sup' = [SupGoto("_shutdown_event_wait", "mcp_thread.start")
                 EXCEPT !.mcp_thread = TRUE]
    /\ UNCHANGED << db, file_hashes, faults >>
    /\ SupRest

(* SIGTERM or SIGINT: the handler sets the shutdown event *)
signal_handler ==
    /\ sup.pc \notin {"none", "exited"}
    /\ ~sup.shutdown_event
    /\ sup' = [sup EXCEPT !.shutdown_event = TRUE]
    /\ UNCHANGED << db, file_hashes, faults >>
    /\ SupRest

(* await self._shutdown_event.wait() *)
_shutdown_event_wait ==
    /\ sup.pc = "_shutdown_event_wait"
    /\ sup.shutdown_event
    /\ sup' = [sup EXCEPT !.pc = "_shutdown"]
    /\ UNCHANGED << db, file_hashes, faults >>
    /\ SupRest

(* _shutdown: stop and join the observer if there is one, then stop the    *)
(* gRPC server if there is one                                             *)
_shutdown ==
    /\ sup.pc = "_shutdown"
    /\ sup' = [sup EXCEPT
                 !.pc = "exited",
                 !.watcher_observer = IF @ = "none" THEN @ ELSE "stopped",
                 !.grpc_server = IF @ = "none" THEN @ ELSE "stopped",
                 !.log = @ \o (IF sup.watcher_observer = "none" THEN << >>
                               ELSE << "watcher_observer.stop" >>)
                           \o (IF sup.grpc_server = "none" THEN << >>
                               ELSE << "grpc_server.stop" >>)]
    /\ UNCHANGED << db, file_hashes, faults >>
    /\ SupRest

SupInit ==
    /\ disk \in SupDisks
    /\ db \in SupStores
    /\ sup = Constructed
    /\ queue = << >>
    /\ clock = Epoch
    /\ file_hashes = << >>
    /\ debounce_time = << >>
    /\ currently_processing = {}
    /\ space_config = Absent
    /\ th = [t \in Threads |-> Idle]
    /\ fsops = 0
    /\ faults = 0
    /\ deleted = {}
    /\ NoStoreOp /\ NoRequest

SupNext ==
    \/ _init_mcp_dependencies
    \/ reindex_all
    \/ watcher_observer_start
    \/ _start_grpc_server
    \/ mcp_thread_start
    \/ signal_handler
    \/ _shutdown_event_wait
    \/ _shutdown

SupSpec == SupInit /\ [][SupNext]_vars

(* the milestone m is in the log, and every m2 in the log comes after it *)
Before(m, m2) ==
    \A j \in 1..Len(sup.log) :
        sup.log[j] = m2 => \E i \in 1..(j - 1) : sup.log[i] = m

(* C10: during start-up reindex_all has returned before the observer is    *)
(* started, the observer is started before the gRPC server is started,     *)
(* and the gRPC server is started before the MCP thread is started.        *)
C10_StartupOrder ==
    /\ Before("reindex_all", "watcher_observer.start")
    /\ Before("watcher_observer.start", "grpc_server.start")
    /\ Before("grpc_server.start", "mcp_thread.start")

C10_Witness ==
    /\ sup.pc = "_shutdown_event_wait"
    /\ sup.log = << "reindex_all", "watcher_observer.start",
                    "grpc_server.start", "mcp_thread.start" >>
    /\ ChunksOfFile(db, PagePath) # {}

(* C11: when _shutdown has completed after a shutdown signal, the observer *)
(* was stopped before the gRPC server and no component holds the database  *)
(* handle any more.                                                        *)
C11_ShutdownReleasesHandle ==
    (sup.pc = "exited" /\ sup.shutdown_event /\ sup.mcp_thread)
        => /\ Before("watcher_observer.stop", "grpc_server.stop")
           /\ sup.graph_db_holders = {}

(***************************************************************************)
(* Search: GraphDB.keyword_search, GraphDB.semantic_search and             *)
(* HybridSearch.search over a store that holds the pages of SearchDisks.   *)
(* Scores are fixed-point numbers: bm25_score, hybrid_score, the keyword   *)
(* score of the weighted fusion and the exp(-0.1 * rank) scores in units   *)
(* of 1e-4 (the four decimals the code rounds to), the 1 / (k + rank)      *)
(* terms of the reciprocal rank fusion in units of 1e-6.                   *)
(***************************************************************************)
MaxLimit == 2

(* str.count(term) of the lower-cased text, for the strings of the corpus  *)
count(s, term) ==
    IF term = "db" /\ s \in {"db is a long text here", "#db notes", "#db plans"}
    THEN 1
    ELSE IF term = "sql" /\ s \in {"sql tips"} THEN 1
    ELSE 0

(* len(content) *)
len(s) ==
    CASE s = "sql tips" -> 8
      [] s = "db is a long text here" -> 22
      [] s = "#db notes" -> 9
      [] s = "#db plans" -> 9
      [] OTHER -> 0

(* keyword.lower().split() *)
split(keyword) ==
    IF keyword = "sql db" THEN << "sql", "db" >> ELSE << keyword >>

technical_terms ==
    {"sql", "nosql", "api", "rest", "graphql", "json", "xml", "index",
     "indexes", "query", "queries", "schema", "migration", "optimization",
     "performance", "cache", "caching", "async", "database", "db",
     "repository", "orm", "transaction"}

(* math.log((total_docs - df + 0.5) / (df + 0.5) + 1.0), in units of 1e-4 *)
idf(total_docs, df) ==
    CASE total_docs = 1 ->
           (CASE df = 1 -> 2877 [] df = 2 -> -2231 [] df = 3 -> -5596
              [] df = 4 -> -8109 [] OTHER -> -10116)
      [] total_docs = 2 ->
           (CASE df = 1 -> 6931 [] df = 2 -> 1823 [] df = 3 -> -1542
              [] df = 4 -> -4055 [] OTHER -> -6061)
      [] total_docs = 3 ->
           (CASE df = 1 -> 9808 [] df = 2 -> 4700 [] df = 3 -> 1335
              [] df = 4 -> -1178 [] OTHER -> -3185)
      [] OTHER ->
           (CASE df = 1 -> 12040 [] df = 2 -> 6931 [] df = 3 -> 3567
              [] df = 4 -> 1054 [] OTHER -> -953)

(* math.exp(-0.1 * rank), in units of 1e-4 *)
exp_rank(rank) ==
    CASE rank = 1 -> 9048 [] rank = 2 -> 8187 [] rank = 3 -> 7408
      [] rank = 4 -> 6703 [] OTHER -> 6065

(* 1.0 / (k + rank) with k = 60, in units of 1e-6 *)
rrf_term(rank) == 1000000 \div (60 + rank)

RECURSIVE SumSeq(_)
SumSeq(s) == IF s = << >> THEN 0 ELSE Head(s) + SumSeq(Tail(s))

(* the rows of a MATCH that has no ORDER BY: the order of the storage,     *)
(* which stays the same while the graph is unchanged                       *)
RECURSIVE Scan(_)
Scan(S) ==
    IF S = {} THEN << >>
    ELSE LET x == CHOOSE y \in S : TRUE IN << x >> \o Scan(S \ {x})

(* list.sort(key, reverse=True): descending by key, stable *)
sorted_reverse(seq, keys) ==
    LET n == Len(seq)
        pos(i) == 1 + Cardinality({ j \in 1..n :
                        keys[j] > keys[i] \/ (keys[j] = keys[i] /\ j < i) })
    IN  [p \in 1..n |-> seq[CHOOSE i \in 1..n : pos(i) = p]]

(* seq[:n] *)
Take(seq, n) == SubSeq(seq, 1, IF n < Len(seq) THEN n ELSE Len(seq))

(* f.path = $scope OR f.path STARTS WITH $scope + "/" *)
PathInScope(path, scope) ==
    Len(scope) <= Len(path) /\ SubSeq(path, 1, Len(scope)) = scope

(* MATCH (c:Chunk) or, with a scope, MATCH (c:Chunk)-[:IN_FOLDER]->(f),    *)
(* one row for each edge                                                   *)
Rows(g, scope) ==
    IF scope = << >> THEN Scan(g.Chunk)
    ELSE LET edges == Scan({ e \in g.IN_FOLDER :
                               /\ PathInScope(e[2], scope)
                               /\ \E c \in g.Chunk : c.id = e[1] })
         IN  [i \in 1..Len(edges) |->
                CHOOSE c \in g.Chunk : c.id = edges[i][1]]

TagsOf(g, id) == { e[2] : e \in { x \in g.TAGGED : x[1] = id } }

(* GraphDB.keyword_search: the records, best first *)
keyword_search(g, keyword, scope) ==
    LET rows == Rows(g, scope)
        total_docs == Len(rows)
        query_terms == split(keyword)
        Has(c, t) ==
            count(c.content, t) + count(c.file_path, t) + count(c.header, t) > 0
        Matches(c) == \E j \in 1..Len(query_terms) : Has(c, query_terms[j])
        chunks == SelectSeq(rows, Matches)
        df(t) == Cardinality({ c \in g.Chunk : Has(c, t) })
        total_length == SumSeq([i \in 1..Len(chunks) |-> len(chunks[i].content)])
        tf4(c, t) ==
            LET base == 4 * count(c.content, t) + 6 * count(c.file_path, t)
                        + 8 * count(c.header, t)
                tagged == IF t \in TagsOf(g, c.id) THEN 2 * base ELSE base
            IN  IF t \in technical_terms THEN (3 * tagged) \div 2 ELSE tagged
        term_score(c, t) ==
            LET tf == tf4(c, t)
                num == idf(total_docs, df(t)) * 5 * tf * total_length
                den == 2 * tf * total_length + 3 * total_length
                       + 9 * len(c.content) * Len(chunks)
            IN  IF tf = 0 THEN 0 ELSE (2 * num + den) \div (2 * den)
        bm25_score(c) ==
            SumSeq([j \in 1..Len(query_terms) |-> term_score(c, query_terms[j])])
        scored_chunks ==
            [i \in 1..Len(chunks) |->
               [id |-> chunks[i].id, bm25_score |-> bm25_score(chunks[i])]]
    IN  IF total_docs = 0 \/ chunks = << >> THEN << >>
        ELSE Take(sorted_reverse(scored_chunks,
                                 [i \in 1..Len(chunks) |->
                                    scored_chunks[i].bm25_score]), 50)

(* GraphDB.semantic_search: the ids of the records; nearest is the order   *)
(* in which the vector index ranks the chunks of the graph for the query   *)
semantic_search(g, nearest, limit, filter_tags, scope) ==
    IF filter_tags = {} /\ scope = << >> THEN Take(nearest, limit)
    ELSE LET vector_results == Take(nearest, limit * 2)
             chunk_ids == { vector_results[i] : i \in 1..Len(vector_results) }
             Keep(c) ==
                 /\ c.id \in chunk_ids
                 /\ filter_tags # {} => TagsOf(g, c.id) \cap filter_tags # {}
                 /\ scope # << >> =>
                      \E e \in g.IN_FOLDER :
                          e[1] = c.id /\ PathInScope(e[2], scope)
             rows == Scan({ c \in g.Chunk : Keep(c) })
         IN  Take([i \in 1..Len(rows) |-> rows[i].id], limit)

Result(id, hybrid, kw, sem) ==
    [id |-> id, hybrid_score |-> hybrid, keyword_score |-> kw,
     semantic_score |-> sem]

(* the ids kept in a list, one entry for each occurrence *)
Keys_list(seq) == seq

(* the keys of a dict filled from seq, in the order of their insertion *)
Keys(seq) ==
    SelectSeq([i \in 1..Len(seq) |->
                 IF \E j \in 1..(i - 1) : seq[j] = seq[i] THEN None ELSE seq[i]],
              LAMBDA x : x # None)

Max(S) == CHOOSE x \in S : \A y \in S : y <= x
Min(S) == CHOOSE x \in S : \A y \in S : x <= y

(* HybridSearch._reciprocal_rank_fusion *)
_reciprocal_rank_fusion(keyword_results, semantic_results, limit) ==
    LET kw_ids == [i \in 1..Len(keyword_results) |-> keyword_results[i].id]
        ids == Keys(kw_ids \o semantic_results)
        kw_sum(id) == SumSeq([i \in 1..Len(kw_ids) |->
                                IF kw_ids[i] = id THEN rrf_term(i) ELSE 0])
        sem_sum(id) == SumSeq([i \in 1..Len(semantic_results) |->
                                 IF semantic_results[i] = id THEN rrf_term(i)
                                 ELSE 0])
        rrf_scores == { kw_sum(ids[i]) + sem_sum(ids[i]) : i \in 1..Len(ids) }
        min_score == Min(rrf_scores)
        score_range == Max(rrf_scores) - min_score
        normalized(id) ==
            IF score_range = 0 THEN 0
            ELSE (20000 * (kw_sum(id) + sem_sum(id) - min_score) + score_range)
                 \div (2 * score_range)
        keyword_score(id) ==
            LET at == { i \in 1..Len(kw_ids) : kw_ids[i] = id }
            IN  IF at = {} THEN 0 ELSE keyword_results[Max(at)].bm25_score
        semantic_score(id) ==
            LET at == { i \in 1..Len(semantic_results) : semantic_results[i] = id }
            IN  IF at = {} THEN 0 ELSE rrf_term(Max(at))
        results == [i \in 1..Len(ids) |->
                      Result(ids[i], normalized(ids[i]), keyword_score(ids[i]),
                             semantic_score(ids[i]))]
    IN  Take(sorted_reverse(results,
                            [i \in 1..Len(ids) |-> results[i].hybrid_score]),
             limit)

(* iteration over a set of str: its order follows the hash seed of the     *)
(* process                                                                 *)
SetIter(S, hash_seed) ==
    LET s == Scan(S)
    IN  IF hash_seed = 0 THEN s ELSE [i \in 1..Len(s) |-> s[Len(s) + 1 - i]]

(* HybridSearch._weighted_fusion; the weights in tenths, total_weight the  *)
(* divisor that search's normalisation leaves                              *)
_weighted_fusion(keyword_results, semantic_results, semantic_weight, keyword_weight, limit, hash_seed) ==
    LET bm25_scores == { keyword_results[i].bm25_score :
                           i \in 1..Len(keyword_results) }
        min_bm25 == Min(bm25_scores)
        bm25_range == Max(bm25_scores) - min_bm25
        keyword_ids == { keyword_results[i].id : i \in 1..Len(keyword_results) }
        semantic_ids == { semantic_results[i] : i \in 1..Len(semantic_results) }
        kw_score(id) ==
            LET at == { i \in 1..Len(keyword_results) : keyword_results[i].id = id }
            IN  IF at = {} \/ bm25_range = 0 THEN 0
                ELSE (20000 * (keyword_results[Max(at)].bm25_score - min_bm25)
                      + bm25_range) \div (2 * bm25_range)
        sem_score(id) ==
            LET at == { i \in 1..Len(semantic_results) : semantic_results[i] = id }
            IN  IF at = {} THEN 0 ELSE exp_rank(Max(at))
        total_weight == semantic_weight + keyword_weight
        weighted_score(id) ==
            (2 * (keyword_weight * kw_score(id) + semantic_weight * sem_score(id))
             + total_weight) \div (2 * total_weight)
        all_chunk_ids == SetIter(keyword_ids \cup semantic_ids, hash_seed)
        results == [i \in 1..Len(all_chunk_ids) |->
                      Result(all_chunk_ids[i], weighted_score(all_chunk_ids[i]),
                             kw_score(all_chunk_ids[i]),
                             sem_score(all_chunk_ids[i]))]
    IN  Take(sorted_reverse(results,
                            [i \in 1..Len(results) |-> results[i].hybrid_score]),
             limit)

(* HybridSearch._filter_by_tags *)
_filter_by_tags(g, results, filter_tags) ==
    SelectSeq(results, LAMBDA r : TagsOf(g, r.id) \cap filter_tags # {})

(* HybridSearch.search with a non-empty query and filter_pages unset;      *)
(* embeddings is "enabled", "disabled" (enable_embeddings is false) or     *)
(* "failed" (semantic_search raised)                                       *)
search(g, a, nearest, hash_seed) ==
    LET keyword_results == keyword_search(g, a.query, a.scope)
        semantic_results ==
            IF a.embeddings = "enabled"
            THEN semantic_search(g, nearest, a.limit * 2, a.filter_tags, a.scope)
            ELSE << >>
        fused_results ==
            IF a.fusion_method = "rrf"
            THEN _reciprocal_rank_fusion(keyword_results, semantic_results,
                                         a.limit * 2)
            ELSE _weighted_fusion(keyword_results, semantic_results,
                                  a.weights[1], a.weights[2], a.limit * 2,
                                  hash_seed)
    IN  IF semantic_results = << >>
        THEN Take([i \in 1..Len(keyword_results) |->
                     Result(keyword_results[i].id, keyword_results[i].bm25_score,
                            keyword_results[i].bm25_score, 0)], a.limit)
        ELSE IF keyword_results = << >>
        THEN Take([i \in 1..Len(semantic_results) |->
                     Result(semantic_results[i], exp_rank(i), 0, exp_rank(i))],
                  a.limit)
        ELSE Take(IF a.filter_tags # {}
                  THEN _filter_by_tags(g, fused_results, a.filter_tags)
                  ELSE fused_results, a.limit)

(* SpaceParser.get_folder_paths: the directories of the tree that         *)
(* _should_skip_directory does not name                                    *)
get_folder_paths(d) ==
    { f \in UNION { { SubSeq(DirsOf(p), 1, i) : i \in 1..Len(DirsOf(p)) } :
                    p \in { q \in DOMAIN d : d[q] # None } } :
        ~_should_skip_directory(f) }

(* init_index.init_index: folders first, then the chunks; in this tree no  *)
(* folder has a sibling page of its name                                   *)
init_index(d) ==
    index_chunks(index_folders(EmptyDB, get_folder_paths(d), {}),
                 parse_space(d))

SearchDisks ==
    { [p \in {PagePath, OtherPage, "Projects/Sub/n.md"} |->
         CASE p = PagePath -> "S1" [] p = OtherPage -> "S2" [] OTHER -> "S3"] }

(* the store as init_index builds it *)
SearchStores == { init_index(d) : d \in SearchDisks }

Queries == {"db", "sql db"}

Rankings(S) ==
    { s \in [1..Cardinality(S) -> S] :
        \A i, j \in 1..Cardinality(S) : s[i] = s[j] => i = j }

SearchArgs ==
    [query : Queries, limit : 1..MaxLimit,
     filter_tags : {{}, {"db"}}, fusion_method : {"rrf", "weighted"},
     weights : {<< 5, 5 >>}, scope : {<< >>, << "Projects" >>},
     embeddings : {"enabled", "disabled", "failed"}]

SearchRest ==
    UNCHANGED << disk, queue, clock, db, file_hashes, debounce_time,
                 currently_processing, space_config, th, fsops, faults,
                 deleted, last_op, fs_access, sup >>

(* a hybrid_search request served by HybridSearch.search *)
HybridSearch(a) ==
    /\ req' = [req EXCEPT !.handler = "hybrid_search", !.args = a,
                          !.results = search(db, a, req.nearest, req.hash_seed)]
    /\ SearchRest

(* a call of GraphDB.keyword_search *)
KeywordSearch(keyword, scope) ==
    /\ req' = [req EXCEPT !.handler = "keyword_search",
                          !.args = [query |-> keyword, scope |-> scope],
                          !.results = keyword_search(db, keyword, scope)]
    /\ SearchRest

(* the server process ends and a new one opens the same store; its hash    *)
(* seed is drawn afresh                                                    *)
Restart(seed) ==
    /\ req' = [req EXCEPT !.hash_seed = seed]
    /\ req' # req
    /\ SearchRest

SearchInit ==
    /\ db \in SearchStores
    /\ \E nearest \in Rankings({ c.id : c \in db.Chunk }) :
         req = [handler |-> None, args |-> << >>, results |-> << >>,
                hash_seed |-> 0, nearest |-> nearest]
    /\ fs_access = {}
    /\ NoSupervisor
    /\ last_op = "none"
    /\ disk \in SearchDisks
    /\ queue = << >>
    /\ clock = Epoch
    /\ file_hashes = << >>
    /\ debounce_time = << >>
    /\ currently_processing = {}
    /\ space_config = Absent
    /\ th = [t \in Threads |-> Idle]
    /\ fsops = 0
    /\ faults = 0
    /\ deleted = {}

SearchNext ==
    \/ \E a \in SearchArgs : HybridSearch(a)
    \/ \E keyword \in Queries, scope \in {<< >>, << "Projects" >>} :
         KeywordSearch(keyword, scope)
    \/ \E seed \in {0, 1} : Restart(seed)

SearchSpec == SearchInit /\ [][SearchNext]_vars

(* C12: when filter_tags is set, every chunk a hybrid search returns has a *)
(* TAGGED edge to one of the named tags, whether or not the vector search  *)
(* contributed results.                                                    *)
C12_FilterTagsRespected ==
    (req.handler = "hybrid_search" /\ req.args.filter_tags # {})
        => \A i \in 1..Len(req.results) :
             \E t \in req.args.filter_tags : << req.results[i].id, t >> \in db.TAGGED

(* C13: with fusion_method "rrf", every hybrid_score of a hybrid search     *)
(* response lies in [0, 1], also when one of the two result lists is empty.*)
C13_RrfScoreInUnitInterval ==
    (req.handler = "hybrid_search" /\ req.args.fusion_method = "rrf")
        => \A i \in 1..Len(req.results) :
             /\ 0 <= req.results[i].hybrid_score
             /\ req.results[i].hybrid_score <= 10000

(* C14: no chunk id occurs twice in the response of a hybrid search, with  *)
(* either fusion method and any overlap of the keyword and vector lists.   *)
C14_NoDuplicateIds ==
    req.handler = "hybrid_search"
        => \A i, j \in 1..Len(req.results) :
             req.results[i].id = req.results[j].id => i = j

(* a response of two chunks, of which the fusion found one in both lists *)
C14_Witness ==
    /\ req.handler = "hybrid_search"
    /\ Len(req.results) = 2
    /\ \E i \in 1..2 : /\ req.results[i].keyword_score > 0
                        /\ req.results[i].semantic_score > 0

(* C15: every record keyword_search returns has bm25_score >= 0, whatever  *)
(* the graph, the query and the scope.                                     *)
C15_Bm25NonNegative ==
    req.handler = "keyword_search"
        => \A i \in 1..Len(req.results) : req.results[i].bm25_score >= 0

(* C16: a hybrid search that repeats the arguments of the one before it,   *)
(* over the same graph, returns the same chunks in the same order with the *)
(* same scores, with either fusion method and with chunks that tie.        *)
C16_SameInputSameOutput ==
    [][(/\ req.handler = "hybrid_search"
        /\ req'.handler = "hybrid_search"
        /\ req'.args = req.args
        /\ db' = db)
          => req'.results = req.results]_vars

(***************************************************************************)
(* TreeSpec: the server over a space with nested, hidden and proposal      *)
(* files. reindex_all runs when the server starts; after it the observer   *)
(* delivers the events of the tree one at a time to the SpaceWatcher, and  *)
(* each handler runs to its end before the next event.                     *)
(***************************************************************************)
MaxTreeOps == 2

TreePaths ==
    {PagePath, "Projects/Sub/n.md", ".obsidian/h.md", "_Proposals/p.md",
     "r.rejected.md", "x.proposal"}

TreeContents(p) == IF p = PagePath THEN {"A1", "A2"} ELSE {"A1"}

TreeRest ==
    UNCHANGED << queue, clock, debounce_time, currently_processing,
                 space_config, th, faults, deleted, req, fs_access, sup >>

(* UnifiedServer.run up to watcher_observer.start: SpaceWatcher.reindex_all *)
(* into the store the server opened                                         *)
Startup ==
    /\ db' = index_chunks(db, parse_space(disk))
    /\ file_hashes' = HashesOf(disk)
    /\ last_op' = IF last_op \in {"reindex_all", "reindex_all again"}
                  THEN "reindex_all again" ELSE "reindex_all"
    /\ UNCHANGED << disk, fsops >>
    /\ TreeRest

(* a file is written and on_created or on_modified handles the event:      *)
(* _should_process (recent tells whether the debounce window of the path   *)
(* is still open), then _reindex_file                                      *)
WatchWrite(p, c, recent) ==
    /\ last_op # "none"
    /\ fsops < MaxTreeOps
    /\ fsops' = fsops + 1
    /\ disk' = [disk EXCEPT ![p] = c]
    /\ last_op' = "on_modified"
    /\ IF /\ EndsWithMd(p)
          /\ ~recent
          /\ Get(file_hashes, p, NoHash) # md5(c)
       THEN /\ db' = index_chunks(delete_chunks_by_file(db, p), parse_file(p, c))
            /\ file_hashes' = Put(file_hashes, p, md5(c))
       ELSE UNCHANGED << db, file_hashes >>
    /\ TreeRest

(* a file is removed and on_deleted handles the event *)
WatchDelete(p) ==
    /\ last_op # "none"
    /\ fsops < MaxTreeOps
    /\ disk[p] # None
    /\ fsops' = fsops + 1
    /\ disk' = [disk EXCEPT ![p] = None]
    /\ last_op' = "on_deleted"
    /\ db' = IF EndsWithMd(p) THEN delete_chunks_by_file(db, p) ELSE db
    /\ UNCHANGED file_hashes
    /\ TreeRest

TreeDisks ==
    { [p \in TreePaths |-> None], [p \in TreePaths |-> "A1"] }

TreeInit ==
    /\ disk \in TreeDisks
    /\ db \in {EmptyDB, init_index(disk)}
    /\ file_hashes = << >>
    /\ last_op = "none"
    /\ fsops = 0
    /\ queue = << >>
    /\ clock = Epoch
    /\ debounce_time = << >>
    /\ currently_processing = {}
    /\ space_config = Absent
    /\ th = [t \in Threads |-> Idle]
    /\ faults = 0
    /\ deleted = {}
    /\ NoRequest /\ NoSupervisor

TreeNext ==
    \/ Startup
    \/ \E p \in TreePaths : \E c \in TreeContents(p), recent \in BOOLEAN :
         WatchWrite(p, c, recent)
    \/ \E p \in TreePaths : WatchDelete(p)

TreeSpec == TreeInit /\ [][TreeNext]_vars

(* C17: once reindex_all has run, and after any watcher events, the store  *)
(* holds no chunk of a file under a directory named _Proposals or a        *)
(* directory whose name begins with ".", nor of a file whose name ends in  *)
(* .rejected.md or .proposal.                                              *)
C17_NoExcludedChunks ==
    last_op # "none"
        => \A c \in db.Chunk :
             /\ ~_should_skip_directory(DirsOf(c.file_path))
             /\ c.file_path \notin {"r.rejected.md", "x.proposal"}

(* the directories of the files that have chunks, with all their parents,  *)
(* hidden and proposal directories left aside                              *)
IndexedFolders(g) ==
    { f \in UNION { { SubSeq(DirsOf(c.file_path), 1, i) :
                        i \in 1..Len(DirsOf(c.file_path)) } : c \in g.Chunk } :
        ~_should_skip_directory(f) }

(* C18: once reindex_all has run, and after any watcher events, the Folder *)
(* nodes are exactly the directories of the indexed files closed under     *)
(* parent.                                                                 *)
C18_FoldersMatchTree ==
    last_op # "none" => { f.path : f \in db.Folder } = IndexedFolders(db)

HAS_CHUNK(g, name) == {}

(* C19: after index_chunks has upserted the n chunks of a file, a Page     *)
(* node named after the file without ".md" exists and has exactly n        *)
(* HAS_CHUNK edges, one to each chunk, with chunk_order 0..n-1 in the      *)
(* order of the chunks in the file.                                        *)
C19_PageHasChunksInOrder ==
    [][\A p \in StorePaths, c \in StoreContents :
         (StoreIndex(p, c) /\ parse_file(p, c) # << >>)
           => LET chunks == parse_file(p, c)
              IN  /\ Stem(p) \in db'.Page
                  /\ HAS_CHUNK(db', Stem(p))
                       = { << ChunkId(chunks[i]), i - 1 >> : i \in 1..Len(chunks) }]_vars

(* C21: when the reindex_all of the start-up has run to its end over a     *)
(* tree with a CONFIG.md, space_config.json exists and holds the           *)
(* configuration parsed from that CONFIG.md.                               *)
C21_FullIndexWritesConfig ==
    (/\ \E i \in 1..Len(sup.log) : sup.log[i] = "reindex_all"
     /\ faults = 0
     /\ disk[ConfigPath] # None /\ ~Unparseable(disk[ConfigPath]))
        => space_config = JsonDoc(parse_config_page(disk[ConfigPath]))

(***************************************************************************)
(* ParserSpec: SpaceParser.parse_space with transclusions, on one parser   *)
(* object whose _content_cache lives as long as the parser. A page is a    *)
(* sequence of lines: a heading, a line of text, or a line that is a       *)
(* transclusion ![[page]] or ![[page#header]]. All pages are at the top    *)
(* of the space and have no frontmatter, so the lookup by path variations  *)
(* is the lookup by name and _strip_frontmatter changes nothing.           *)
(***************************************************************************)
MaxParserOps == 2

max_depth == 5

Line(kind, level, text, page, header) ==
    [kind |-> kind, level |-> level, text |-> text, page |-> page,
     header |-> header]

(* content.split("\n") of the content versions of the two pages *)
Lines(c) ==
    CASE c = "T1" -> << Line("text", 0, "alpha", None, None),
                        Line("transclusion", 0, "", "b", None) >>
      [] c = "T2" -> << Line("text", 0, "alpha", None, None),
                        Line("transclusion", 0, "", "b", "intro") >>
      [] c = "U1" -> << Line("text", 0, "beta", None, None),
                        Line("transclusion", 0, "", "a", None) >>
      [] c = "U2" -> << Line("heading", 1, "Intro", None, None),
                        Line("text", 0, "one", None, None),
                        Line("heading", 2, "intro", None, None),
                        Line("text", 0, "two", None, None),
                        Line("heading", 2, "Other", None, None),
                        Line("text", 0, "three", None, None),
                        Line("heading", 1, "Next", None, None),
                        Line("text", 0, "four", None, None) >>
      [] OTHER -> << >>

ParserContents(p) == IF p = PagePath THEN {"T1", "T2"} ELSE {"U1", "U2"}

(* str.lower() *)
lower(s) == IF s = "Intro" THEN "intro" ELSE s

(* SpaceParser._extract_section: the loop over the lines, from line i on,  *)
(* with in_section and section_level as the loop left them                 *)
RECURSIVE _extract_section_from(_, _, _, _, _)
_extract_section_from(lines, header, i, in_section, section_level) ==
    IF i > Len(lines) THEN << >>
    ELSE LET line == lines[i]
         IN  IF line.kind = "heading"
             THEN IF lower(line.text) = lower(header)
                  THEN << line >>
                       \o _extract_section_from(lines, header, i + 1, TRUE,
                                                line.level)
                  ELSE IF in_section /\ line.level <= section_level
                  THEN << >>
                  ELSE (IF in_section THEN << line >> ELSE << >>)
                       \o _extract_section_from(lines, header, i + 1,
                                                in_section, section_level)
             ELSE (IF in_section THEN << line >> ELSE << >>)
                  \o _extract_section_from(lines, header, i + 1, in_section,
                                           section_level)

_extract_section(lines, header) ==
    _extract_section_from(lines, header, 1, FALSE, 0)

ParserRest ==
    UNCHANGED << queue, clock, db, file_hashes, debounce_time,
                 currently_processing, space_config, th, faults, deleted,
                 last_op, fs_access, sup >>

(* a page is written or removed while no parse is running *)
DiskChange(p, c) ==
    /\ req.pc = "idle"
    /\ fsops < MaxParserOps
    /\ disk[p] # c
    /\ fsops' = fsops + 1
    /\ disk' = [disk EXCEPT ![p] = c]
    /\ UNCHANGED req
    /\ ParserRest

(* parse_space, first pass: the content of every page of the tree goes     *)
(* into _content_cache under its page name                                 *)
ParseSpace ==
    /\ req.pc = "idle"
    /\ LET files == { p \in DOMAIN disk : disk[p] # None }
       IN  req' = [req EXCEPT
                     !.pc = "next_file",
                     !._content_cache =
                         [n \in DOMAIN @ \cup { Stem(p) : p \in files } |->
                            IF \E p \in files : Stem(p) = n
                            THEN disk[CHOOSE p \in files : Stem(p) = n]
                            ELSE @[n]],
                     !.files = files,
                     !.out = << >>]
    /\ UNCHANGED << disk, fsops >>
    /\ ParserRest

Frame(page, version, header, content) ==
    [page |-> page, version |-> version, header |-> header,
     content |-> content, todo |-> content, done |-> << >>]

(* parse_space, second pass: the next file of the glob is taken from the   *)
(* cache and _parse_file calls _expand_transclusions at depth 0; with no   *)
(* file left parse_space returns                                           *)
NextFile ==
    /\ req.pc = "next_file"
    /\ IF req.files = {}
       THEN req' = [req EXCEPT !.pc = "idle"]
       ELSE LET p == CHOOSE q \in req.files : TRUE
                version == req._content_cache[Stem(p)]
            IN  req' = [req EXCEPT
                          !.pc = "expanding",
                          !.files = @ \ {p},
                          !.file = p,
                          !.stack = << Frame(Stem(p), version, None,
                                             Lines(version)) >>]
    /\ UNCHANGED << disk, fsops >>
    /\ ParserRest

(* a call of _expand_transclusions returns result to its caller *)
Pop(result) ==
    LET n == Len(req.stack)
    IN  IF n = 1
        THEN req' = [req EXCEPT !.pc = "next_file", !.stack = << >>,
                                !.out = Put(@, req.file, result)]
        ELSE req' = [req EXCEPT
                       !.stack = [SubSeq(@, 1, n - 1) EXCEPT
                                    ![n - 1].done = @ \o result]]

(* one step of _expand_transclusions with the depth cap at cap: the check  *)
(* of the depth on entry, or the substitution of the next match            *)
ExpandAt(cap) ==
    /\ req.pc = "expanding"
    /\ LET n == Len(req.stack)
           top == req.stack[n]
           line == Head(top.todo)
           target == Get(req._content_cache, line.page, None)
           section == IF line.header = None THEN Lines(target)
                      ELSE _extract_section(Lines(target), line.header)
       IN  IF n - 1 >= cap /\ top.done = << >>
           THEN Pop(top.todo)
           ELSE IF top.todo = << >>
           THEN Pop(top.done)
           ELSE IF line.kind # "transclusion" \/ target = None
                   \/ Lines(target) = << >>
           THEN req' = [req EXCEPT !.stack[n].todo = Tail(@),
                                   !.stack[n].done = Append(@, line)]
           ELSE req' = [req EXCEPT
                          !.stack = Append([@ EXCEPT ![n].todo = Tail(@)],
                                           Frame(line.page, target,
                                                 line.header, section))]
    /\ UNCHANGED << disk, fsops >>
    /\ ParserRest

(* the step with the cap two levels deeper than max_depth *)
ExpandStep_deeper == ExpandAt(max_depth + 2)

ExpandStep == ExpandAt(max_depth)

ParserInit ==
    /\ disk \in { [p \in StorePaths |-> IF p = PagePath THEN a ELSE b] :
                    a \in ParserContents(PagePath),
                    b \in ParserContents(OtherPage) }
    /\ req = [handler |-> "parse_space", pc |-> "idle", _content_cache |-> << >>,
              files |-> {}, file |-> None, stack |-> << >>, out |-> << >>]
    /\ fsops = 0
    /\ fs_access = {}
    /\ NoSupervisor
    /\ last_op = "none"
    /\ db = EmptyDB
    /\ queue = << >>
    /\ clock = Epoch
    /\ file_hashes = << >>
    /\ debounce_time = << >>
    /\ currently_processing = {}
    /\ space_config = Absent
    /\ th = [t \in Threads |-> Idle]
    /\ faults = 0
    /\ deleted = {}

ParserNext ==
    \/ \E p \in StorePaths : \E c \in ParserContents(p) \cup {None} :
         DiskChange(p, c)
    \/ ParseSpace
    \/ NextFile
    \/ ExpandStep

ParserSpec == ParserInit /\ [][ParserNext]_vars

(* the parser runs on while a parse_space call has work to do *)
ParserFair == ParserSpec /\ WF_vars(NextFile) /\ WF_vars(ExpandStep)

(* C22: the expansion of transclusions comes to an end for every set of    *)
(* pages, also for pages that transclude each other, and no call of        *)
(* _expand_transclusions has a depth above 5.                              *)
C22_ExpansionTerminates ==
    /\ [](Len(req.stack) - 1 <= 5)
    /\ (req.pc = "expanding") ~> (req.pc = "next_file")

(* two pages that transclude each other, expanded down to the deepest call *)
C22_Witness ==
    /\ Len(req.stack) = 6
    /\ req.stack[6].page # req.stack[5].page
    /\ req.stack[6].page = req.stack[4].page

(* C28: a transclusion is never expanded with page content that an earlier *)
(* call left in the parser: what an expansion inlines is what the page has *)
(* in the tree now.                                                        *)
C28_NoStaleCache ==
    \A i \in 2..Len(req.stack) :
        /\ \E p \in DOMAIN disk : Stem(p) = req.stack[i].page /\ disk[p] # None
        /\ \A p \in DOMAIN disk :
             Stem(p) = req.stack[i].page => disk[p] = req.stack[i].version

(* the section a transclusion with a header names: from the first heading  *)
(* that matches to the line before the next heading of equal or shallower  *)
(* depth                                                                   *)
SectionOf(lines, header) ==
    LET Matches(i) == lines[i].kind = "heading"
                      /\ lower(lines[i].text) = lower(header)
        starts == { i \in 1..Len(lines) : Matches(i) }
        first == CHOOSE i \in starts : \A j \in starts : i <= j
        ends == { j \in (first + 1)..Len(lines) :
                    /\ lines[j].kind = "heading"
                    /\ lines[j].level <= lines[first].level }
        last == IF ends = {} THEN Len(lines)
                ELSE (CHOOSE j \in ends : \A k \in ends : j <= k) - 1
    IN  IF starts = {} THEN << >> ELSE SubSeq(lines, first, last)

(* C29: the text inlined for ![[page#header]] is the section of the target *)
(* from the first heading that matches header, case ignored, to the line   *)
(* before the next heading of equal or shallower depth than that heading,  *)
(* also when a nested or later heading has the same text.                  *)
C29_SectionExtent ==
    \A i \in 2..Len(req.stack) :
        req.stack[i].header # None
            => req.stack[i].content
                 = SectionOf(Lines(req.stack[i].version), req.stack[i].header)

(***************************************************************************)
(* The watcher's debounce, its hash cache and its lock.                    *)
(***************************************************************************)
(* thread t is marked for its path in this step and goes on to re-index it *)
Accepts(t) ==
    /\ th[t].pc = "_mark_processing"
    /\ th'[t].pc \in {"_handle_config_change", "delete"}

(* C23: a create or modify event for a path is rejected whenever another   *)
(* event for the same path was accepted less than 5 seconds earlier, for   *)
(* every interleaving of the handler threads.                              *)
C23_DebounceAcrossThreads ==
    [][\A t \in Threads : \A earlier \in Epoch..clock :
         (Accepts(t) /\ last_op = Accepted(th[t].path, earlier))
             => clock - earlier >= 5]_vars

(* C24: when no re-index of a path is in flight, file_hashes[path] is the  *)
(* MD5 of the content version whose chunks the store holds for the path,   *)
(* also when the file was written again while it was parsed and indexed    *)
(* (stated for a file that was never deleted and with no failure of the    *)
(* embedding call or the store).                                           *)
C24_HashIsOfIndexedContent ==
    \A p \in MdPaths :
        (/\ Reindexing(p) = {}
         /\ faults = 0
         /\ p \notin deleted
         /\ p \in DOMAIN file_hashes
         /\ ChunksOfFile(db, p) # {})
            => \E c \in ContentsOf(p) :
                  /\ file_hashes[p] = md5(c)
                  /\ ChunksOfFile(db, p) = ParsedNodes(p, c)

(* C25: a file that was deleted and then created again, outside the        *)
(* debounce window, with the bytes it had when it was last indexed, has    *)
(* its create event processed and its chunks in the store again (stated    *)
(* for a path no event of which was accepted before, once both events have *)
(* been handled).                                                          *)
C25_RecreatedFileIndexed ==
    \A p \in MdPaths :
        (/\ Quiescent
         /\ faults = 0
         /\ fsops = 2
         /\ p \in deleted
         /\ disk[p] # None
         /\ last_op = "none"
         /\ HashUnchanged(p))
            => ChunksOfFile(db, p) = ParsedNodes(p, disk[p])

(* the steps of a handler that run inside `with self.processing_lock`      *)
processing_lock ==
    {"check_processing", "_mark_processing", "_unmark_processing"}

(* C30: every write to file_hashes and to debounce_time is made while the  *)
(* watcher's processing lock is held.                                      *)
C30_MapsWrittenUnderLock ==
    [][(file_hashes' # file_hashes \/ debounce_time' # debounce_time)
          => \E t \in Threads :
                th'[t] # th[t] /\ th[t].pc \in processing_lock]_vars

(* C26: after the supervisor's reindex_all on a store that an earlier run  *)
(* left, the store has no chunk of a file that is no longer on disk, and   *)
(* no chunk, tag edge or link edge that the content on disk does not       *)
(* produce (with no failure of the embedding call or the store).           *)
C26_StartupLeavesNothingStale ==
    (/\ \E i \in 1..Len(sup.log) : sup.log[i] = "reindex_all"
     /\ faults = 0)
        => LET produced == index_chunks(EmptyDB, parse_space(disk))
           IN  /\ \A p \in MdPaths : disk[p] = None => ChunksOfFile(db, p) = {}
               /\ db.Chunk \subseteq produced.Chunk
               /\ db.TAGGED \subseteq produced.TAGGED
               /\ db.LINKS_TO \subseteq produced.LINKS_TO

(* C27: a reader of space_config.json that runs while a CONFIG.md update   *)
(* is written finds the complete previous document or the complete new     *)
(* one, never an empty or partly written file (stated for an update that   *)
(* began with no file or a complete one).                                  *)
C27_ConfigJsonNeverTorn ==
    \A t \in Threads :
        (th[t].pc = "write_config_json" /\ th[t].json_before.file # "empty")
            => space_config \in {th[t].json_before, JsonDoc(th[t].config)}

====
